---- MODULE Spec2Model ----
(***************************************************************************)
(* Model of mgen2d3js.py: conversion of an mgen log into a D3JS json file. *)
(* Strings are sequences of one-character strings, so that split, slicing, *)
(* address validation, normalisation and json.dumps are computed character *)
(* by character as the Python code computes them.                          *)
(***************************************************************************)
EXTENDS Naturals, Integers, Sequences, FiniteSets, TLC

(* ---------------------------------------------------------------------- *)
(* Python str / list primitives                                            *)
(* ---------------------------------------------------------------------- *)

\* A Python str literal as a sequence of characters.
Chars(str) == [i \in 1..Len(str) |-> SubSeq(str, i, i)]

Range(s) == {s[i] : i \in DOMAIN s}

\* A Python local variable: e is evaluated once and F is applied to its value.
Local(e, F(_)) == CHOOSE r \in {F(x) : x \in {e}} : TRUE

\* The position of the k-th occurrence of the separator, given the set seps
\* of its positions in a string of length len; 0 before the first field and
\* len + 1 after the last one.
Pos(seps, k, len) ==
    IF k = 0 THEN 0
    ELSE IF k = Cardinality(seps) + 1 THEN len + 1
    ELSE CHOOSE i \in seps : Cardinality({j \in seps : j < i}) = k - 1

\* str.split(sep) for a one-character separator: never empty, keeps empty
\* fields.  Field k lies between the (k-1)-th and the k-th occurrence of sep.
Split(str, sep) ==
    Local(str, LAMBDA s :
    Local({i \in 1..Len(s) : s[i] = sep}, LAMBDA seps :
        [k \in 1..(Cardinality(seps) + 1) |->
            SubSeq(s, Pos(seps, k - 1, Len(s)) + 1, Pos(seps, k, Len(s)) - 1)]))

\* s[a:b] for 0 <= a <= b (Python clamps b to len(s)).
Slice(s, a, b) == SubSeq(s, a + 1, IF b < Len(s) THEN b ELSE Len(s))

\* s[a:]
SliceFrom(s, a) == SubSeq(s, a + 1, Len(s))

\* sep.join(parts)
RECURSIVE Join(_, _)
Join(parts, sep) ==
    Local(parts, LAMBDA p :
        IF Len(p) = 0 THEN <<>>
        ELSE IF Len(p) = 1 THEN p[1]
        ELSE p[1] \o sep \o Join(Tail(p), sep))

(* ---------------------------------------------------------------------- *)
(* ipaddress.ip_address, as called by validate_node_address                *)
(* ---------------------------------------------------------------------- *)

DecDigits == Chars("0123456789")

HexDigits == Chars("0123456789abcdef")

HexDigitSet == Range(Chars("0123456789abcdefABCDEF"))

DigitVal(c) == (CHOOSE n \in 1..10 : DecDigits[n] = c) - 1

\* int(s) for a string of decimal digits
RECURSIVE DecVal(_)
DecVal(s) ==
    IF s = <<>> THEN 0
    ELSE DecVal(SubSeq(s, 1, Len(s) - 1)) * 10 + DigitVal(s[Len(s)])

\* str(n) for n >= 0
RECURSIVE DecStr(_)
DecStr(n) ==
    IF n < 10 THEN <<DecDigits[n + 1]>>
    ELSE DecStr(n \div 10) \o <<DecDigits[(n % 10) + 1]>>

\* '%x' % n for n >= 0
RECURSIVE HexStr(_)
HexStr(n) ==
    IF n < 16 THEN <<HexDigits[n + 1]>>
    ELSE HexStr(n \div 16) \o <<HexDigits[(n % 16) + 1]>>

\* IPv4Address._parse_octet accepts: 1..3 ascii digits, no leading zero
\* unless the octet is "0", value at most 255.
ValidOctet(o) ==
    /\ o # <<>>
    /\ \A i \in DOMAIN o : o[i] \in Range(DecDigits)
    /\ Len(o) <= 3
    /\ (Len(o) > 1 => o[1] # "0")
    /\ DecVal(o) <= 255

\* The value of IPv4Address(s) as an integer, for a valid s
IPv4Int(octets) ==
    ((DecVal(octets[1]) * 256 + DecVal(octets[2])) * 256
        + DecVal(octets[3])) * 256 + DecVal(octets[4])

\* IPv4Address(s) does not raise
IsIPv4(s) ==
    /\ s # <<>>
    /\ \E octets \in {Split(s, ".")} :
           /\ Len(octets) = 4
           /\ \A i \in 1..4 : ValidOctet(octets[i])

\* IPv6Address._parse_hextet accepts: 1..4 hexadecimal digits
ValidHextet(h) ==
    /\ h # <<>>
    /\ Range(h) \subseteq HexDigitSet
    /\ Len(h) <= 4

\* The parts of IPv6Address._ip_int_from_string once a dotted-quad last
\* part has been replaced by its two hextets.
IPv6Parts(raw) ==
    IF "." \in Range(raw[Len(raw)])
    THEN Local(IPv4Int(Split(raw[Len(raw)], ".")), LAMBDA ipv4_int :
            SubSeq(raw, 1, Len(raw) - 1)
                \o << HexStr((ipv4_int \div 65536) % 65536),
                      HexStr(ipv4_int % 65536) >>)
    ELSE raw

\* IPv6Address._ip_int_from_string does not raise on the address part
IsIPv6Body(s) ==
    /\ s # <<>>
    /\ \E raw \in {Split(s, ":")} :
        /\ Len(raw) >= 3
        /\ ("." \in Range(raw[Len(raw)]) => IsIPv4(raw[Len(raw)]))
        /\ \E parts \in {IPv6Parts(raw)} :
           \E n \in {Len(parts)} :
           \E skips \in {{i \in 2..(n - 1) : parts[i] = <<>>}} :
            /\ n <= 9
            /\ Cardinality(skips) <= 1
            /\ IF skips # {}
               THEN \E skip_index \in skips :
                    \E parts_hi \in {IF parts[1] = <<>> THEN skip_index - 2
                                     ELSE skip_index - 1} :
                    \E parts_lo \in {IF parts[n] = <<>> THEN n - skip_index - 1
                                     ELSE n - skip_index} :
                       /\ (parts[1] = <<>> => parts_hi = 0)
                       /\ (parts[n] = <<>> => parts_lo = 0)
                       /\ 8 - (parts_hi + parts_lo) >= 1
                       /\ \A i \in 1..parts_hi : ValidHextet(parts[i])
                       /\ \A i \in (n - parts_lo + 1)..n : ValidHextet(parts[i])
               ELSE /\ n = 8
                    /\ \A i \in 1..n : ValidHextet(parts[i])

\* IPv6Address(s) does not raise: optional %scope suffix, then the body
IsIPv6(s) ==
    \E p \in {Split(s, "%")} :
        IF Len(p) = 1 THEN IsIPv6Body(p[1])
        ELSE /\ Len(p) = 2
             /\ p[2] # <<>>
             /\ IsIPv6Body(p[1])

\* ipaddress.ip_address(s) does not raise ValueError
ip_address(str) == \E s \in {str} : IsIPv4(s) \/ IsIPv6(s)

(* ---------------------------------------------------------------------- *)
(* Utility functions of mgen2d3js.py                                       *)
(* ---------------------------------------------------------------------- *)

\* A diagnostic (print + logging.exception).  count = 0 when the message
\* carries no record number.
Diag(kind, count) == [kind |-> kind, count |-> count]

\* validate_recv_mgen_line: ok is FALSE when the function returns False
\* (after logging), TRUE when it returns None.  mgen_line[5] / mgen_line[6]
\* out of range raise the interpreter's own IndexError, whose message has
\* no record number; both are caught by the same handlers.
validate_recv_mgen_line(mgen_line, count) ==
    IF Len(mgen_line) < 6
    THEN [ok |-> FALSE, log |-> <<Diag("list index out of range", 0)>>]
    ELSE IF Slice(mgen_line[6], 0, 4) # Chars("src>")
    THEN [ok |-> FALSE,
          log |-> <<Diag("src address is not in the expected position", count)>>]
    ELSE IF Len(mgen_line) < 7
    THEN [ok |-> FALSE, log |-> <<Diag("list index out of range", 0)>>]
    ELSE IF Slice(mgen_line[7], 0, 4) # Chars("dst>")
    THEN [ok |-> FALSE,
          log |-> <<Diag("dst address is not in the expected position", count)>>]
    ELSE [ok |-> TRUE, log |-> <<>>]

\* validate_node_address without the ip_address check
validate_node_address_NoCheck(node_address, count) ==
    [ok |-> TRUE, log |-> <<>>]

\* validate_node_address: strip "/port", then ipaddress.ip_address
validate_node_address(node_address, count) ==
    IF ip_address(Split(node_address, "/")[1])
    THEN [ok |-> TRUE, log |-> <<>>]
    ELSE [ok |-> FALSE, log |-> <<Diag("not a valid node address", count)>>]

\* convert_node_address raises IndexError when the address part has fewer
\* than four dot-separated fields (node_name[1..3] out of range).
convert_node_address_raises(node_address) ==
    Len(Split(Split(node_address, "/")[1], ".")) < 4

\* convert_node_address without the removal of the "/port" suffix
convert_node_address_KeepPort(node_address) ==
    Local(Split(node_address, "."), LAMBDA node_name :
        Chars("mgen.") \o node_name[1] \o <<"-">> \o node_name[2]
            \o <<"-">> \o node_name[3] \o <<"-">> \o node_name[4])

\* convert_node_address splitting the port off at ":" instead of "/"
convert_node_address_ColonSep(node_address) ==
    Local(Split(Split(node_address, ":")[1], "."), LAMBDA node_name :
        Chars("mgen.") \o node_name[1] \o <<"-">> \o node_name[2]
            \o <<"-">> \o node_name[3] \o <<"-">> \o node_name[4])

\* convert_node_address: "mgen." + the first four dot-separated fields of
\* the address part, joined with "-".
convert_node_address(node_address) ==
    Local(Split(Split(node_address, "/")[1], "."), LAMBDA node_name :
        Chars("mgen.") \o node_name[1] \o <<"-">> \o node_name[2]
            \o <<"-">> \o node_name[3] \o <<"-">> \o node_name[4])

\* [json_dict["name"] for json_dict in json_dicts]
Names(json_dicts) == {json_dicts[i].name : i \in DOMAIN json_dicts}

\* The srcnode step with size incremented outside the "dstnode not in
\* imports" test
WithSrc_SizeAlways(json_dicts, srcnode, dstnode) ==
    IF json_dicts = <<>> \/ srcnode \notin Names(json_dicts)
    THEN Append(json_dicts,
                [name |-> srcnode, size |-> 1, imports |-> <<dstnode>>])
    ELSE [i \in DOMAIN json_dicts |->
            IF json_dicts[i].name # srcnode THEN json_dicts[i]
            ELSE IF dstnode \in Range(json_dicts[i].imports)
            THEN [json_dicts[i] EXCEPT !.size = @ + 1]
            ELSE [json_dicts[i] EXCEPT !.size = @ + 1,
                                       !.imports = Append(@, dstnode)]]

\* The srcnode step without the "dstnode not in imports" test
WithSrc_NoDedup(json_dicts, srcnode, dstnode) ==
    IF json_dicts = <<>> \/ srcnode \notin Names(json_dicts)
    THEN Append(json_dicts,
                [name |-> srcnode, size |-> 1, imports |-> <<dstnode>>])
    ELSE [i \in DOMAIN json_dicts |->
            IF json_dicts[i].name = srcnode
            THEN [json_dicts[i] EXCEPT !.size = @ + 1,
                                       !.imports = Append(@, dstnode)]
            ELSE json_dicts[i]]

\* The srcnode step looking for srcnode only in the first dict
WithSrc_FirstOnly(json_dicts, srcnode, dstnode) ==
    IF json_dicts = <<>> \/ srcnode # json_dicts[1].name
    THEN Append(json_dicts,
                [name |-> srcnode, size |-> 1, imports |-> <<dstnode>>])
    ELSE [i \in DOMAIN json_dicts |->
            IF json_dicts[i].name = srcnode
               /\ dstnode \notin Range(json_dicts[i].imports)
            THEN [json_dicts[i] EXCEPT !.size = @ + 1,
                                       !.imports = Append(@, dstnode)]
            ELSE json_dicts[i]]

\* The srcnode step inserting a new srcnode dict at the head of json_dicts
WithSrc_Prepend(json_dicts, srcnode, dstnode) ==
    IF json_dicts = <<>> \/ srcnode \notin Names(json_dicts)
    THEN <<[name |-> srcnode, size |-> 1, imports |-> <<dstnode>>]>>
             \o json_dicts
    ELSE [i \in DOMAIN json_dicts |->
            IF json_dicts[i].name = srcnode
               /\ dstnode \notin Range(json_dicts[i].imports)
            THEN [json_dicts[i] EXCEPT !.size = @ + 1,
                                       !.imports = Append(@, dstnode)]
            ELSE json_dicts[i]]

\* The srcnode step inserting a new dstnode at the head of imports
WithSrc_ImportsPrepend(json_dicts, srcnode, dstnode) ==
    IF json_dicts = <<>> \/ srcnode \notin Names(json_dicts)
    THEN Append(json_dicts,
                [name |-> srcnode, size |-> 1, imports |-> <<dstnode>>])
    ELSE [i \in DOMAIN json_dicts |->
            IF json_dicts[i].name = srcnode
               /\ dstnode \notin Range(json_dicts[i].imports)
            THEN [json_dicts[i] EXCEPT !.size = @ + 1,
                                       !.imports = <<dstnode>> \o @]
            ELSE json_dicts[i]]

\* The srcnode step of the accumulation: create the first dict if json_dicts
\* is empty, append a dict for a srcnode not processed yet, otherwise append
\* dstnode to the imports of every dict named srcnode that lacks it.
WithSrc(json_dicts, srcnode, dstnode) ==
    IF json_dicts = <<>> \/ srcnode \notin Names(json_dicts)
    THEN Append(json_dicts,
                [name |-> srcnode, size |-> 1, imports |-> <<dstnode>>])
    ELSE [i \in DOMAIN json_dicts |->
            IF json_dicts[i].name = srcnode
               /\ dstnode \notin Range(json_dicts[i].imports)
            THEN [json_dicts[i] EXCEPT !.size = @ + 1,
                                       !.imports = Append(@, dstnode)]
            ELSE json_dicts[i]]

\* The dstnode step that never creates a dict
WithDst_Never(json_dicts, dstnode) == json_dicts

\* The dstnode step looking for dstnode only among the dicts that are not
\* a srcnode (those with empty imports)
WithDst_NotSource(json_dicts, dstnode) ==
    IF dstnode \notin {json_dicts[i].name :
                          i \in {j \in DOMAIN json_dicts :
                                    json_dicts[j].imports = <<>>}}
    THEN Append(json_dicts, [name |-> dstnode, size |-> 0, imports |-> <<>>])
    ELSE json_dicts

\* The dstnode step of the accumulation: create a dict with empty imports
\* for a dstnode that no dict is named after.
WithDst(json_dicts, dstnode) ==
    IF dstnode \notin Names(json_dicts)
    THEN Append(json_dicts, [name |-> dstnode, size |-> 0, imports |-> <<>>])
    ELSE json_dicts

\* The accumulation with the dstnode step nested in the "srcnode has not
\* been processed yet" branch
Accumulate_DstInBranch(json_dicts, srcnode, dstnode) ==
    IF json_dicts = <<>> \/ srcnode \notin Names(json_dicts)
    THEN WithDst(WithSrc(json_dicts, srcnode, dstnode), dstnode)
    ELSE WithSrc(json_dicts, srcnode, dstnode)

\* The accumulation of convert_mgen_to_json for one validated line.
Accumulate(json_dicts, srcnode, dstnode) ==
    WithDst(WithSrc(json_dicts, srcnode, dstnode), dstnode)

\* json.dumps of a str whose characters need no escaping
JsonStr(s) == <<"\"">> \o s \o <<"\"">>

\* json.dumps of one node dict (keys in insertion order: name, size, imports)
JsonDict(d) ==
    Chars("{\"name\": ") \o JsonStr(d.name)
        \o Chars(", \"size\": ") \o DecStr(d.size)
        \o Chars(", \"imports\": [")
        \o Join([i \in DOMAIN d.imports |-> JsonStr(d.imports[i])], Chars(", "))
        \o Chars("]}")

\* json.dumps(json_dicts) with the default separators
JsonDumps(json_dicts) ==
    <<"[">> \o Join([i \in DOMAIN json_dicts |-> JsonDict(json_dicts[i])],
                    Chars(", ")) \o <<"]">>

(* ---------------------------------------------------------------------- *)
(* Input lines                                                             *)
(* ---------------------------------------------------------------------- *)

\* The six notional RECV lines of the module docstring, in file order.
ExampleInput == <<
    Chars("22:55:07.470450 RECV proto>UDP flow>1 seq>0 src>127.0.0.1/5001 dst>127.0.0.2/5000 sent>22:55:07.470351 size>1024\n"),
    Chars("22:55:08.470981 RECV proto>UDP flow>1 seq>1 src>127.0.0.1/5001 dst>127.0.0.2/5000 sent>22:55:08.470860 size>1024\n"),
    Chars("22:55:10.471264 RECV proto>UDP flow>2 seq>0 src>127.0.0.1/5001 dst>127.0.0.3/5000 sent>22:55:10.471120 size>1024\n"),
    Chars("22:55:11.471280 RECV proto>UDP flow>3 seq>0 src>127.0.0.2/5001 dst>127.0.0.3/5000 sent>22:55:11.471140 size>1024\n"),
    Chars("22:55:13.471262 RECV proto>UDP flow>4 seq>0 src>127.0.0.2/5001 dst>127.0.0.1/5000 sent>22:55:13.471120 size>1024\n"),
    Chars("22:55:14.471251 RECV proto>UDP flow>5 seq>0 src>127.0.0.1/5001 dst>127.0.0.4/5000 sent>22:55:14.471128 size>1024\n") >>

\* Further RECV lines that pass every validation.
NoPortLine == Chars("22:55:15.000001 RECV proto>UDP flow>6 seq>0 src>127.0.0.1 dst>127.0.0.2/6000 sent>22:55:15.000000 size>1024\n")

SelfLoopLine == Chars("22:55:16.000001 RECV proto>UDP flow>8 seq>0 src>127.0.0.1/5001 dst>127.0.0.1/5000 sent>22:55:16.000000 size>1024\n")

\* A RECV line whose address fields are valid IPv6 addresses.
IPv6Line == Chars("22:55:17.000001 RECV proto>UDP flow>9 seq>0 src>::1/5001 dst>2001:db8::2/5000 sent>22:55:17.000000 size>1024\n")

\* RECV lines that fail one validation.
ShortRecvLine == Chars("22:55:18.000001 RECV proto>UDP flow>1\n")

NoSrcTagLine == Chars("22:55:18.000002 RECV proto>UDP seq>0 src>127.0.0.1/5001 dst>127.0.0.3/5000 sent>22:55:18.000000 size>1024\n")

NoDstTagLine == Chars("22:55:18.000003 RECV proto>UDP flow>1 seq>0 src>127.0.0.1/5001 sent>22:55:18.000000 dst>127.0.0.3/5000 size>1024\n")

BadSrcLine == Chars("22:55:18.000005 RECV proto>UDP flow>1 seq>0 src>999.999.999.999/5001 dst>127.0.0.3/5000 sent>22:55:18.000000 size>1024\n")

BadDstLine == Chars("22:55:18.000006 RECV proto>UDP flow>1 seq>0 src>127.0.0.1/5001 dst>999.999.999.999/5000 sent>22:55:18.000000 size>1024\n")

\* Lines that are not RECV records.
Blank == Chars("\n")

SendLine == Chars("22:55:07.470351 SEND proto>UDP flow>1 seq>0 src>127.0.0.1/5001 dst>127.0.0.3/5000 size>1024\n")

OneTokenLine == Chars("22:55:19.000000\n")

SkippedLines == {ShortRecvLine, NoSrcTagLine, NoDstTagLine,
                 BadSrcLine, BadDstLine}

Lines == {ExampleInput[1], ExampleInput[3], ExampleInput[5],
          NoPortLine, SelfLoopLine, IPv6Line,
          Blank, SendLine, OneTokenLine} \cup SkippedLines

AllLines == Lines \cup Range(ExampleInput)

\* mgen_line.split(" ") for every input line
Tokens == [raw \in AllLines |-> Split(raw, " ")]

\* Bound on the number of lines of an input file other than ExampleInput.
MaxLines == 3

IsPrefix(s, t) == Len(s) <= Len(t) /\ s = SubSeq(t, 1, Len(s))

InBounds(ls) == Len(ls) <= MaxLines \/ IsPrefix(ls, ExampleInput)

(* ---------------------------------------------------------------------- *)
(* convert_mgen_to_json as a state machine                                 *)
(* ---------------------------------------------------------------------- *)

VARIABLES
    inputState,  \* the input path: "missing", "unreadable", "empty", "text", "binary"
    outWritable, \* whether open(output_file, 'a') succeeds
    out,         \* the output path: [exists, text]
    out0,        \* the output path before the run
    pc,          \* "Start", "Reading", "Done", "Failed", "Raised"
    lines,       \* the lines of f.readlines() iterated so far
    count,       \* count
    json_dicts,  \* json_dicts
    log,         \* diagnostics printed and logged so far
    last,        \* what happened to the line iterated last
    normalized   \* calls of convert_node_address: [address, port, node_name]

vars == <<inputState, outWritable, out, out0, pc, lines, count, json_dicts,
          log, last, normalized>>

InputStates == {"missing", "unreadable", "empty", "text", "binary"}

\* The output path before the run: absent, or left by an earlier run.
PriorOut == {[exists |-> FALSE, text |-> <<>>],
             [exists |-> TRUE, text |-> Chars("[]")]}

Init ==
    /\ inputState \in InputStates
    /\ outWritable \in BOOLEAN
    /\ out \in PriorOut
    /\ out0 = out
    /\ pc = "Start"
    /\ lines = <<>>
    /\ count = 0
    /\ json_dicts = <<>>
    /\ log = <<>>
    /\ last = "none"
    /\ normalized = <<>>

\* open(input_file, 'r') raises FileNotFoundError: caught by the outermost
\* handler, which reports it; nothing else runs.
OpenInputMissing ==
    /\ pc = "Start"
    /\ inputState = "missing"
    /\ log' = Append(log, Diag("FileNotFoundError: Cannot find input_file", 0))
    /\ pc' = "Failed"
    /\ UNCHANGED <<normalized, inputState, outWritable, out, out0, lines, count,
                   json_dicts, last>>

\* open(input_file, 'r') raises another OSError (PermissionError,
\* IsADirectoryError): no handler of convert_mgen_to_json matches it.
OpenInputRaises ==
    /\ pc = "Start"
    /\ inputState = "unreadable"
    /\ pc' = "Raised"
    /\ UNCHANGED <<normalized, inputState, outWritable, out, out0, lines, count,
                   json_dicts, log, last>>

\* The diagnostics of the st_size == 0 check: the ValueError is raised and
\* caught in the same try statement.
EmptyCheck == IF inputState = "empty"
              THEN <<Diag("The input file seems to be empty.", 0)>>
              ELSE <<>>

\* The input opens, the size check runs, open(output_file, 'a') raises
\* IOError: reported by its handler.
OpenOutputFails ==
    /\ pc = "Start"
    /\ inputState \in {"empty", "text", "binary"}
    /\ ~outWritable
    /\ log' = log \o EmptyCheck
                  \o <<Diag("FileNotFoundError: Cannot find output_file", 0)>>
    /\ pc' = "Failed"
    /\ UNCHANGED <<normalized, inputState, outWritable, out, out0, lines, count,
                   json_dicts, last>>

\* The opening of the files with the output opened lazily, so that the loop
\* over the lines starts whether or not the output can be opened
OpenFiles_Always ==
    /\ pc = "Start"
    /\ inputState \in {"empty", "text", "binary"}
    /\ log' = log \o EmptyCheck
    /\ out' = [exists |-> outWritable \/ out.exists, text |-> out.text]
    /\ pc' = "Reading"
    /\ UNCHANGED <<normalized, inputState, outWritable, out0, lines, count, json_dicts,
                   last>>

\* The input opens, the size check runs, open(output_file, 'a') creates the
\* output file if it is absent and keeps its content otherwise.
OpenFiles ==
    /\ pc = "Start"
    /\ inputState \in {"empty", "text", "binary"}
    /\ outWritable
    /\ log' = log \o EmptyCheck
    /\ out' = [exists |-> TRUE, text |-> out.text]
    /\ pc' = "Reading"
    /\ UNCHANGED <<normalized, inputState, outWritable, out0, lines, count, json_dicts,
                   last>>

\* f.readlines() raises UnicodeDecodeError: reported, nothing is written.
ReadDecodeError ==
    /\ pc = "Reading"
    /\ inputState = "binary"
    /\ log' = Append(log, Diag("UnicodeDecodeError: The input file is not a text file.", 0))
    /\ pc' = "Failed"
    /\ UNCHANGED <<normalized, inputState, outWritable, out, out0, lines, count,
                   json_dicts, last>>

\* The loop can take raw as its next line.
CanRead(raw) ==
    /\ pc = "Reading"
    /\ inputState = "text"
    /\ InBounds(Append(lines, raw))

\* The validations without that of the destination address
ValidateLine_SrcOnly(mgen_line, cnt) ==
    LET tags == validate_recv_mgen_line(mgen_line, cnt)
    IN  IF ~tags.ok THEN tags
        ELSE validate_node_address(SliceFrom(mgen_line[6], 4), cnt)

\* The three validations of a RECV line, in order; the first that returns
\* False ends the iteration.
ValidateLine(mgen_line, cnt) ==
    LET tags == validate_recv_mgen_line(mgen_line, cnt)
    IN  IF ~tags.ok THEN tags
        ELSE LET src == validate_node_address(SliceFrom(mgen_line[6], 4), cnt)
             IN  IF ~src.ok THEN src
                 ELSE validate_node_address(SliceFrom(mgen_line[7], 4), cnt)

\* The blank line counted like any other line
ReadBlank_Counts ==
    \E raw \in AllLines :
        /\ CanRead(raw)
        /\ raw = Blank
        /\ lines' = Append(lines, raw)
        /\ count' = count + 1
        /\ last' = "blank"
        /\ UNCHANGED <<normalized, inputState, outWritable, out, out0, pc, json_dicts, log>>

\* mgen_line == "\n": continue, count is not incremented.
ReadBlank ==
    \E raw \in AllLines :
        /\ CanRead(raw)
        /\ raw = Blank
        /\ lines' = Append(lines, raw)
        /\ last' = "blank"
        /\ UNCHANGED <<normalized, inputState, outWritable, out, out0, pc, count,
                       json_dicts, log>>

\* mgen_line.split(" ") has one element: mgen_line[1] raises IndexError,
\* which no handler of convert_mgen_to_json matches.
ReadRaisesIndexError ==
    \E raw \in AllLines :
        /\ CanRead(raw)
        /\ raw # Blank
        /\ Len(Tokens[raw]) < 2
        /\ lines' = Append(lines, raw)
        /\ count' = count + 1
        /\ pc' = "Raised"
        /\ last' = "raised"
        /\ UNCHANGED <<normalized, inputState, outWritable, out, out0, json_dicts, log>>

\* mgen_line[1] != 'RECV': nothing is done with the line.
ReadNonRecv ==
    \E raw \in AllLines :
        /\ CanRead(raw)
        /\ raw # Blank
        /\ \E mgen_line \in {Tokens[raw]} :
               /\ Len(mgen_line) >= 2
               /\ mgen_line[2] # Chars("RECV")
        /\ lines' = Append(lines, raw)
        /\ count' = count + 1
        /\ last' = "ignored"
        /\ UNCHANGED <<normalized, inputState, outWritable, out, out0, pc, json_dicts, log>>

\* A RECV line for which a validation returns False: continue.
ReadSkip ==
    \E raw \in AllLines :
        /\ CanRead(raw)
        /\ raw # Blank
        /\ \E mgen_line \in {Tokens[raw]} :
               /\ Len(mgen_line) >= 2
               /\ mgen_line[2] = Chars("RECV")
               /\ \E checked \in {ValidateLine(mgen_line, count + 1)} :
                      /\ ~checked.ok
                      /\ log' = log \o checked.log
        /\ lines' = Append(lines, raw)
        /\ count' = count + 1
        /\ last' = "skipped"
        /\ UNCHANGED <<normalized, inputState, outWritable, out, out0, pc, json_dicts>>

\* A validated RECV line on which convert_node_address raises IndexError,
\* which no handler of convert_mgen_to_json matches.
ReadConvertRaises ==
    \E raw \in AllLines :
        /\ CanRead(raw)
        /\ raw # Blank
        /\ \E mgen_line \in {Tokens[raw]} :
               /\ Len(mgen_line) >= 2
               /\ mgen_line[2] = Chars("RECV")
               /\ ValidateLine(mgen_line, count + 1).ok
               /\ \/ convert_node_address_raises(SliceFrom(mgen_line[6], 4))
                  \/ convert_node_address_raises(SliceFrom(mgen_line[7], 4))
        /\ lines' = Append(lines, raw)
        /\ count' = count + 1
        /\ pc' = "Raised"
        /\ last' = "raised"
        /\ UNCHANGED <<normalized, inputState, outWritable, out, out0, json_dicts, log>>

\* A validated RECV line: both addresses are converted and the edge is
\* accumulated in json_dicts.
ReadAccumulate ==
    \E raw \in AllLines :
        /\ CanRead(raw)
        /\ raw # Blank
        /\ \E mgen_line \in {Tokens[raw]} :
               /\ Len(mgen_line) >= 2
               /\ mgen_line[2] = Chars("RECV")
               /\ ValidateLine(mgen_line, count + 1).ok
               /\ ~convert_node_address_raises(SliceFrom(mgen_line[6], 4))
               /\ ~convert_node_address_raises(SliceFrom(mgen_line[7], 4))
               /\ \E srcnode \in {convert_node_address(SliceFrom(mgen_line[6], 4))} :
                  \E dstnode \in {convert_node_address(SliceFrom(mgen_line[7], 4))} :
                      json_dicts' = Accumulate(json_dicts, srcnode, dstnode)
        /\ lines' = Append(lines, raw)
        /\ count' = count + 1
        /\ last' = "accumulated"
        /\ UNCHANGED <<normalized, inputState, outWritable, out, out0, pc, log>>

\* The most characters that the device of the output still accepts (file
\* size limit, free space) when the write fails
MaxWriteCapacity == 5

\* The loop is over and g.write(json.dumps(json_dicts)), or the close of g
\* that flushes it, raises OSError because the device accepts only capacity
\* more characters, fewer than the text has: that part of the text, possibly
\* none, is appended to the output, and the IOError handler reports the
\* failure.
FinalizeWriteFails ==
    /\ pc = "Reading"
    /\ \/ inputState = "empty"
       \/ inputState = "text" /\ lines # <<>>
    /\ \E text \in {JsonDumps(json_dicts)} :
       \E capacity \in 0..MaxWriteCapacity :
           /\ capacity < Len(text)
           /\ out' = [exists |-> TRUE,
                      text |-> out.text \o SubSeq(text, 1, capacity)]
    /\ log' = Append(log, Diag("FileNotFoundError: Cannot find output_file", 0))
    /\ pc' = "Failed"
    /\ UNCHANGED <<normalized, inputState, outWritable, out0, lines, count,
                   json_dicts, last>>

\* The loop is over: g.write(json.dumps(json_dicts)) appends to the output.
Finalize ==
    /\ pc = "Reading"
    /\ \/ inputState = "empty"
       \/ inputState = "text" /\ lines # <<>>
    /\ out' = [exists |-> TRUE, text |-> out.text \o JsonDumps(json_dicts)]
    /\ pc' = "Done"
    /\ UNCHANGED <<normalized, inputState, outWritable, out0, lines, count, json_dicts,
                   log, last>>

Next ==
    \/ OpenInputMissing
    \/ OpenInputRaises
    \/ OpenOutputFails
    \/ OpenFiles
    \/ ReadDecodeError
    \/ ReadBlank
    \/ ReadRaisesIndexError
    \/ ReadNonRecv
    \/ ReadSkip
    \/ ReadConvertRaises
    \/ ReadAccumulate
    \/ FinalizeWriteFails
    \/ Finalize

Spec == Init /\ [][Next]_vars

(* ---------------------------------------------------------------------- *)
(* convert_node_address on its own                                         *)
(* ---------------------------------------------------------------------- *)

\* Valid dotted-quad addresses
Quads == {Chars("127.0.0.1"), Chars("127.0.0.2"), Chars("192.168.10.254")}

\* Port suffixes of a node address, the empty one for a bare address
Ports == {<<>>, Chars("/5000"), Chars("/5001")}

MaxNormalized == 3

\* The node addresses to convert are drawn; convert_mgen_to_json has not
\* started.
NormInit ==
    /\ normalized \in [1..MaxNormalized ->
                          [address : Quads, port : Ports, node_name : {<<>>}]]
    /\ inputState = "missing"
    /\ outWritable = FALSE
    /\ out = [exists |-> FALSE, text |-> <<>>]
    /\ out0 = out
    /\ pc = "Start"
    /\ lines = <<>>
    /\ count = 0
    /\ json_dicts = <<>>
    /\ log = <<>>
    /\ last = "none"

\* One call of convert_node_address, on address + port
Normalize ==
    \E i \in DOMAIN normalized :
        /\ normalized[i].node_name = <<>>
        /\ \E node_name \in {convert_node_address(normalized[i].address
                                                   \o normalized[i].port)} :
               normalized' = [normalized EXCEPT ![i].node_name = node_name]
        /\ UNCHANGED <<inputState, outWritable, out, out0, pc, lines, count,
                       json_dicts, log, last>>

NormNext == Normalize

NormSpec == NormInit /\ [][NormNext]_vars

(* ---------------------------------------------------------------------- *)
(* Expected results, stated independently of the code                      *)
(* ---------------------------------------------------------------------- *)

N1 == Chars("mgen.127-0-0-1")

N2 == Chars("mgen.127-0-0-2")

N3 == Chars("mgen.127-0-0-3")

N4 == Chars("mgen.127-0-0-4")

\* The RECV lines with two valid dotted-quad addresses, each with the node
\* names of its source and destination.
ValidLineEdges == {
    <<ExampleInput[1], N1, N2>>, <<ExampleInput[2], N1, N2>>,
    <<ExampleInput[3], N1, N3>>, <<ExampleInput[4], N2, N3>>,
    <<ExampleInput[5], N2, N1>>, <<ExampleInput[6], N1, N4>>,
    <<NoPortLine, N1, N2>>, <<SelfLoopLine, N1, N1>> }

\* The edges <<A, B>> of the valid lines among ls
Edges(ls) == {<<e[2], e[3]>> : e \in {v \in ValidLineEdges : v[1] \in Range(ls)}}

\* The dicts of json_dicts named n
DictsNamed(n) == {i \in DOMAIN json_dicts : json_dicts[i].name = n}

\* The number of occurrences of x in the sequence sq
Occurrences(sq, x) == Cardinality({i \in DOMAIN sq : sq[i] = x})

\* The step reads one more line, which is raw
Reads(raw) == pc = "Reading" /\ lines' = Append(lines, raw)

(* ---------------------------------------------------------------------- *)
(* Claims                                                                  *)
(* ---------------------------------------------------------------------- *)

\* C1: after any prefix of any input, every node record has
\* size = len(imports).
C1_SizeIsLenImports ==
    \A i \in DOMAIN json_dicts :
        json_dicts[i].size = Len(json_dicts[i].imports)

\* A source that received a repeated pair and then a new destination.
C1_Witness ==
    /\ lines = <<ExampleInput[1], NoPortLine, ExampleInput[3]>>
    /\ json_dicts[1].size = 2
    /\ pc = "Done"

\* C2: no two node records have the same name, whatever the roles in which
\* a name was seen.
C2_UniqueNames ==
    \A i, j \in DOMAIN json_dicts :
        json_dicts[i].name = json_dicts[j].name => i = j

\* A name seen first as a destination, then as a source, and a line whose
\* source and destination are the same name.
C2_Witness ==
    /\ lines = <<ExampleInput[1], ExampleInput[5], SelfLoopLine>>
    /\ Len(json_dicts) = 2
    /\ pc = "Reading"

\* C3: for every valid line A -> B read, the node A lists B exactly once and
\* its size is the number of distinct destinations recorded for A.
C3_DistinctDestinations ==
    \A e \in Edges(lines) :
        \E i \in DOMAIN json_dicts :
            /\ json_dicts[i].name = e[1]
            /\ Occurrences(json_dicts[i].imports, e[2]) = 1
            /\ json_dicts[i].size =
                   Cardinality({f \in Edges(lines) : f[1] = e[1]})

\* Node 1 is created as a destination-only node, then receives the same
\* pair twice.
C3_Witness ==
    /\ lines = <<ExampleInput[5], ExampleInput[1], NoPortLine>>
    /\ pc = "Done"
    /\ json_dicts[2] = [name |-> N1, size |-> 1, imports |-> <<N2>>]

\* C4: every destination of a valid line is the name of exactly one node
\* record, with empty imports and size 0 if it is the source of no valid line.
C4_DestinationsPresent ==
    \A e \in Edges(lines) :
        /\ Cardinality(DictsNamed(e[2])) = 1
        /\ (~\E f \in Edges(lines) : f[1] = e[2]) =>
               \A i \in DictsNamed(e[2]) :
                   json_dicts[i].imports = <<>> /\ json_dicts[i].size = 0

\* Two destinations that are never a source, in the final output.
C4_Witness ==
    /\ lines = <<ExampleInput[1], ExampleInput[3]>>
    /\ pc = "Done"
    /\ Len(json_dicts) = 3

\* C5 as stated: the six example lines yield the four records with the
\* imports of mgen.127-0-0-2 in the order [mgen.127-0-0-1, mgen.127-0-0-3].
C5_Original ==
    (pc = "Done" /\ lines = ExampleInput) =>
        json_dicts = << [name |-> N1, size |-> 3, imports |-> <<N2, N3, N4>>],
                        [name |-> N2, size |-> 2, imports |-> <<N1, N3>>],
                        [name |-> N3, size |-> 0, imports |-> <<>>],
                        [name |-> N4, size |-> 0, imports |-> <<>>] >>

\* C5 amended: the six example lines yield exactly these four records in
\* this order, the imports of mgen.127-0-0-2 being
\* [mgen.127-0-0-3, mgen.127-0-0-1] (the order in which the file records them).
C5_ExampleOutput ==
    (pc = "Done" /\ lines = ExampleInput) =>
        json_dicts = << [name |-> N1, size |-> 3, imports |-> <<N2, N3, N4>>],
                        [name |-> N2, size |-> 2, imports |-> <<N3, N1>>],
                        [name |-> N3, size |-> 0, imports |-> <<>>],
                        [name |-> N4, size |-> 0, imports |-> <<>>] >>

\* The run over the six example lines has finished.
C5_Witness == pc = "Done" /\ lines = ExampleInput /\ Len(json_dicts) = 4

\* C6: with an existing empty input file the run ends in Failed with the
\* empty-input diagnostic, and the output path is neither created nor written.
C6_EmptyInputFails ==
    (inputState = "empty" /\ pc # "Start") =>
        /\ pc = "Failed"
        /\ out = out0
        /\ \E i \in DOMAIN log : log[i].kind = "The input file seems to be empty."

\* C7: when the input file cannot be opened the run halts with the
\* cannot-open diagnostic before any line is processed, and the output path
\* is neither created nor written.
C7_CannotOpenInput ==
    (inputState \in {"missing", "unreadable"} /\ pc # "Start") =>
        /\ pc = "Failed"
        /\ log = <<Diag("FileNotFoundError: Cannot find input_file", 0)>>
        /\ lines = <<>>
        /\ out = out0

\* C8: a RECV line skipped for a recoverable reason (too few tokens, src> or
\* dst> tag missing, source or destination address invalid) leaves json_dicts
\* unchanged, and the loop goes on to the next line.
C8_SkipLeavesGraph ==
    [][\A raw \in SkippedLines :
          Reads(raw) => (json_dicts' = json_dicts /\ pc' = "Reading")]_vars

\* A line is skipped between two accumulated lines.
C8_Witness ==
    /\ lines = <<ExampleInput[1], BadDstLine, ExampleInput[3]>>
    /\ Len(log) = 1
    /\ Len(json_dicts) = 3

\* C9: a non-blank line whose second token is not RECV, whatever its token
\* count, is ignored: json_dicts and the diagnostics are unchanged, nothing
\* is raised and the loop goes on to the next line.
C9_NonRecvIgnored ==
    [][\A raw \in {SendLine, OneTokenLine} :
          Reads(raw) => /\ json_dicts' = json_dicts
                        /\ log' = log
                        /\ pc' = "Reading"]_vars

\* The RECV lines that pass validate_recv_mgen_line and, for both address
\* fields, validate_node_address.
ValidatedLines ==
    {raw \in AllLines :
        /\ Len(Tokens[raw]) >= 2
        /\ Tokens[raw][2] = Chars("RECV")
        /\ ValidateLine(Tokens[raw], 1).ok}

\* C10: a RECV line that passes tag and address validation is normalized
\* without error and reaches the accumulator.
C10_ValidatedLineAccumulated ==
    [][\A raw \in ValidatedLines :
          Reads(raw) => (last' = "accumulated" /\ pc' = "Reading")]_vars

\* C11: whatever the lines of a readable text input, the run ends in Done or
\* in Failed with a logged diagnostic; no line ends it in any other way.
C11_EndsDoneOrFailed ==
    inputState \in {"empty", "text"} =>
        /\ pc \in {"Start", "Reading", "Done", "Failed"}
        /\ (pc = "Failed" => log # <<>>)

\* C12: when the run reaches Done the output file holds exactly one JSON
\* value, the serialisation of the final json_dicts, whatever the output
\* path held before the run.
C12_OutputIsOneJsonValue ==
    pc = "Done" => out = [exists |-> TRUE, text |-> JsonDumps(json_dicts)]

\* C13: every node record is the source or the destination of a valid line
\* read, and every name in the imports of a node is the destination of a
\* valid line read with that node as source; skipped and ignored lines
\* never contribute.
C13_OnlyValidLines ==
    \A i \in DOMAIN json_dicts :
        /\ \E e \in Edges(lines) : json_dicts[i].name \in {e[1], e[2]}
        /\ \A b \in Range(json_dicts[i].imports) :
               <<json_dicts[i].name, b>> \in Edges(lines)

\* A run over a valid line, a skipped line and an ignored line that both
\* name other addresses.
C13_Witness ==
    /\ lines = <<ExampleInput[1], BadDstLine, SendLine>>
    /\ pc = "Done"
    /\ Len(json_dicts) = 2

\* sq with x appended unless it is already there
AddNew(sq, x) == IF x \in Range(sq) THEN sq ELSE Append(sq, x)

\* The names of the valid lines of ls in the order of first encounter, the
\* source of a line before its destination.
RECURSIVE FirstEncounter(_)
FirstEncounter(ls) ==
    IF ls = <<>> THEN <<>>
    ELSE LET before == FirstEncounter(SubSeq(ls, 1, Len(ls) - 1))
             here == {v \in ValidLineEdges : v[1] = ls[Len(ls)]}
         IN  IF here = {} THEN before
             ELSE LET e == CHOOSE v \in here : TRUE
                  IN  AddNew(AddNew(before, e[2]), e[3])

\* C14: the node records are in first-encounter order over the valid lines
\* read, source before destination, and a record never changes position.
C14_FirstEncounterOrder ==
    /\ [][\A i \in DOMAIN json_dicts :
             /\ i \in DOMAIN json_dicts'
             /\ json_dicts'[i].name = json_dicts[i].name]_vars
    /\ []([i \in DOMAIN json_dicts |-> json_dicts[i].name]
              = FirstEncounter(lines))

\* Node 2 is met first (as a source), node 1 as its destination, node 3 last.
C14_Witness ==
    /\ lines = <<ExampleInput[5], ExampleInput[3], ExampleInput[1]>>
    /\ [i \in DOMAIN json_dicts |-> json_dicts[i].name] = <<N2, N1, N3>>

\* The destinations of the valid lines of ls with source a, in the order in
\* which each is first recorded.
RECURSIVE FirstRecorded(_, _)
FirstRecorded(ls, a) ==
    IF ls = <<>> THEN <<>>
    ELSE LET before == FirstRecorded(SubSeq(ls, 1, Len(ls) - 1), a)
             here == {v \in ValidLineEdges : v[1] = ls[Len(ls)] /\ v[2] = a}
         IN  IF here = {} THEN before
             ELSE AddNew(before, (CHOOSE v \in here : TRUE)[3])

\* C15: the imports of every node are ordered by the first time each
\* destination is recorded for it; a repeated pair moves and adds nothing.
C15_ImportsOrder ==
    \A i \in DOMAIN json_dicts :
        json_dicts[i].imports = FirstRecorded(lines, json_dicts[i].name)

\* 1 -> 3 is recorded before 1 -> 2, which is then repeated.
C15_Witness ==
    /\ lines = <<ExampleInput[3], ExampleInput[1], NoPortLine>>
    /\ pc = "Done"
    /\ json_dicts[1].imports = <<N3, N2>>

\* C17: a valid line from S to S makes S its own neighbour: the imports of S
\* gain S once and its size grows by one (or S is created with imports <<S>>
\* and size 1), there is one record for S, and a repeat changes nothing.
C17_SelfLoop ==
    [][Reads(SelfLoopLine) =>
         /\ Cardinality({i \in DOMAIN json_dicts' :
                            json_dicts'[i].name = N1}) = 1
         /\ IF N1 \in Names(json_dicts)
            THEN json_dicts' =
                   [i \in DOMAIN json_dicts |->
                      IF json_dicts[i].name = N1
                         /\ N1 \notin Range(json_dicts[i].imports)
                      THEN [name |-> N1,
                            size |-> json_dicts[i].size + 1,
                            imports |-> Append(json_dicts[i].imports, N1)]
                      ELSE json_dicts[i]]
            ELSE json_dicts' =
                   Append(json_dicts,
                          [name |-> N1, size |-> 1, imports |-> <<N1>>])]_vars

\* Node 1 exists with one neighbour, then takes itself as a neighbour, and
\* the repeated self-loop line has changed nothing.
C17_Witness ==
    /\ lines = <<ExampleInput[1], SelfLoopLine, SelfLoopLine>>
    /\ json_dicts = <<[name |-> N1, size |-> 2, imports |-> <<N2, N1>>],
                      [name |-> N2, size |-> 0, imports |-> <<>>]>>

\* The number of non-blank lines of ls
NonBlank(ls) == Cardinality({i \in DOMAIN ls : ls[i] # Blank})

\* The skipped lines whose diagnostic carries the record number
NumberedSkips == {NoSrcTagLine, NoDstTagLine, BadSrcLine, BadDstLine}

C19_Original ==
    (pc = "Failed" /\ inputState = "text" /\ ~outWritable) => lines # <<>>

\* C19: with a readable non-empty input, an output that cannot be opened
\* makes the run fail from Start, right after the input is opened and before
\* any line is read or processed, with the output diagnostic as the only
\* one; the run fails from Start only for an unopenable or empty input or
\* for such an output.
C19_OutputOpenedFirst ==
    /\ []((~outWritable /\ inputState = "text" /\ pc # "Start")
          => /\ pc = "Failed"
             /\ lines = <<>>
             /\ count = 0
             /\ json_dicts = <<>>
             /\ out = out0
             /\ log = <<Diag("FileNotFoundError: Cannot find output_file", 0)>>)
    /\ [][(pc = "Start" /\ pc' = "Failed")
             => \/ inputState \in {"missing", "unreadable", "empty"}
                \/ ~outWritable]_vars

\* A text input whose output cannot be opened: failed with no line read.
C19_Witness ==
    /\ pc = "Failed"
    /\ inputState = "text"
    /\ ~outWritable
    /\ lines = <<>>
    /\ log = <<Diag("FileNotFoundError: Cannot find output_file", 0)>>

\* C20: after each line, every name in the imports of a node is the name of
\* a node of json_dicts.
C20_ImportsAreNodes ==
    \A i \in DOMAIN json_dicts :
        \A b \in Range(json_dicts[i].imports) : b \in Names(json_dicts)

\* Node 3 is created as a destination, node 1 refers to itself, and node 2
\* refers to node 1, which already exists.
C20_Witness ==
    /\ lines = <<ExampleInput[3], SelfLoopLine, ExampleInput[5]>>
    /\ pc = "Done"
    /\ Len(json_dicts) = 3

\* C16: the name given by convert_node_address depends only on the address
\* part: two calls on the same string, or on the same dotted quad with
\* different ports or with none, give the same name.
C16_PortIndependent ==
    \A i, j \in DOMAIN normalized :
        (/\ normalized[i].node_name # <<>>
         /\ normalized[j].node_name # <<>>
         /\ normalized[i].address = normalized[j].address)
        => normalized[i].node_name = normalized[j].node_name

\* 127.0.0.1 converted bare, with port 5000 and with port 5001.
C16_Witness ==
    /\ Len(normalized) = 3
    /\ \A i \in DOMAIN normalized :
           /\ normalized[i].address = Chars("127.0.0.1")
           /\ normalized[i].node_name = N1
    /\ normalized[1].port = <<>>
    /\ normalized[2].port = Chars("/5000")
    /\ normalized[3].port = Chars("/5001")

====
